---- MODULE Spec2Model ----
(***************************************************************************)
(* A model of the Froidure-Pin enumeration engine of yatyat                *)
(* (src/semigroup/algs/froidure_pin/froidure_pin_impl.rs) together with    *)
(* the element type Transformation and the dense table Vec2 it runs on.    *)
(*                                                                         *)
(* Element indices, generator indices and images of points are 0-based, as *)
(* in the source; TLA+ sequences are 1-based, so position p of a Rust Vec  *)
(* is read with At(vec, p).  An Option<T> is the empty sequence for None   *)
(* and the one-element sequence <<x>> for Some(x).                         *)
(***************************************************************************)
EXTENDS Integers, Sequences, FiniteSets, TLC

\* ------------------------------------------------------------------------
\* Bounds of the model
\* ------------------------------------------------------------------------

\* The longest generator list handed to TransformationSemigroup::new.
MaxGens == 2

\* The longest generator word the rewrite rules are tried on.
MaxWord == 4

\* The largest degree of a transformation a caller of the library builds.
MaxDegree == 3

\* The largest number of rows and of columns of a Vec2 a caller builds.
MaxDim == 2

\* The number of writes a caller makes to its Vec2.
MaxWrites == 2

\* The number of rows and columns a caller adds to its Vec2.
MaxAdds == 2

\* ------------------------------------------------------------------------
\* Option, Vec
\* ------------------------------------------------------------------------

None == << >>

Some(x) == << x >>

IsSome(o) == o # None

\* Option::unwrap / Option::expect on a value that is Some.
Unwrap(o) == o[1]

\* vec[p] for a 0-based position p.
At(vec, p) == vec[p + 1]

Range(s) == { s[x] : x \in DOMAIN s }

\* ------------------------------------------------------------------------
\* Transformation
\* ------------------------------------------------------------------------

\* Transformation::from_vec_unchecked
Transformation(vals) == [degree |-> Len(vals), vals |-> vals]

\* Transformation::apply on a point below the degree: Ok(vals[x]).
Apply(f, x) == At(f.vals, x)

\* <Transformation as SemigroupElement>::multiply: left-to-right composition
\* of two transformations of the same degree.
Multiply(f, g) ==
    [degree |-> f.degree,
     vals   |-> [x \in 1..f.degree |-> Apply(g, Apply(f, x - 1))]]

\* SemigroupElement::is_id as FroidurePin::new sees it: the generic code
\* calls the trait method, and the trait implementation for Transformation
\* does not override the default, which answers false.
is_id(s) == FALSE

\* The identity a Semigroup handle declares for transformations of the
\* given degree: the map that fixes every point.
IdentityOf(d) == [degree |-> d, vals |-> [x \in 1..d |-> x - 1]]

\* ------------------------------------------------------------------------
\* Vec2
\* ------------------------------------------------------------------------

Vec2New(n_rows, n_cols, default) ==
    [n_rows |-> n_rows, n_cols |-> n_cols,
     vec    |-> [x \in 1..(n_rows * n_cols) |-> default]]

Vec2Index(t, row, col) == At(t.vec, row * t.n_cols + col)

\* A write that lays the cells out column by column.
Vec2IndexMutColumnMajor(t, row, col, val) ==
    [t EXCEPT !.vec = [t.vec EXCEPT ![col * t.n_rows + row + 1] = val]]

Vec2IndexMut(t, row, col, val) ==
    [t EXCEPT !.vec[row * t.n_cols + col + 1] = val]

\* add_row that appends the cells of the row and forgets to count it.
Vec2AddRowKeepsCount(t, default) ==
    [t EXCEPT !.vec = @ \o [x \in 1..t.n_cols |-> default]]

Vec2AddRow(t, default) ==
    [t EXCEPT !.n_rows = @ + 1,
              !.vec    = @ \o [x \in 1..t.n_cols |-> default]]

\* Vec::insert(index, element)
VecInsert(vec, index, element) ==
    SubSeq(vec, 1, index) \o <<element>> \o SubSeq(vec, index + 1, Len(vec))

\* The loop of add_col: one default inserted after each of the rows
\* row, row - 1, .., 0 of a table of n_cols columns.
RECURSIVE ExpandRows(_, _, _, _)
ExpandRows(vec, n_cols, row, default) ==
    IF row < 0 THEN vec
    ELSE ExpandRows(VecInsert(vec, (row + 1) * n_cols, default),
                    n_cols, row - 1, default)

\* add_col that puts the new cells at the end of the vector.
Vec2AddColAtEnd(t, default) ==
    [t EXCEPT !.n_cols = @ + 1,
              !.vec    = @ \o [x \in 1..t.n_rows |-> default]]

Vec2AddCol(t, default) ==
    [t EXCEPT !.n_cols = @ + 1,
              !.vec    = ExpandRows(t.vec, t.n_cols, t.n_rows - 1, default)]

Vec2GetRow(t, row) ==
    LET offset == row * t.n_cols
    IN SubSeq(t.vec, offset + 1, offset + t.n_cols)

\* ------------------------------------------------------------------------
\* Inputs
\* ------------------------------------------------------------------------

Swap == Transformation(<<1, 0, 2>>)

Cycle == Transformation(<<1, 2, 0>>)

Collapse == Transformation(<<1, 1, 2>>)

Shift == Transformation(<<0, 0, 1>>)

PaperA == Transformation(<<1, 1, 3, 3, 4, 5>>)

PaperB == Transformation(<<4, 2, 3, 3, 5, 5>>)

\* The transformations generator lists are drawn from: the identity, a
\* transposition, a cycle and two non-invertible maps on three points, and
\* the two generators of the example of the Froidure-Pin paper on six.
Pool == {IdentityOf(3), Swap, Cycle, Collapse, Shift, PaperA, PaperB}

GenLists == UNION { [1..n -> Pool] : n \in 0..MaxGens }

\* ------------------------------------------------------------------------
\* State
\* ------------------------------------------------------------------------

VARIABLES
    gens,                \* the slice handed to TransformationSemigroup::new
    declares_id,         \* whether the Semigroup handle's id() is Some
    debug_assertions,    \* whether the build keeps debug_assert!
    semigroup,           \* the TransformationSemigroup, once built
    pc,                  \* where the program is
    current_word_length,
    generators,
    elements,
    element_map,
    rewrite_rules,
    left_cayley_graph,
    right_cayley_graph,
    reduced,
    prefix,
    last,
    suffix,
    first,
    length,
    i, j,                \* loop variables of run(): generator indices
    u, v,                \* loop variables of run(): element cursors
    original,            \* the result bundle of an earlier build, if any
    call,                \* the last call of a library function and its result
    table                \* a Vec2 a caller holds

fields == <<current_word_length, generators, elements, element_map,
            rewrite_rules, left_cayley_graph, right_cayley_graph, reduced,
            prefix, last, suffix, first, length>>

cursors == <<i, j, u, v>>

inputs == <<gens, declares_id, debug_assertions>>

library == <<call, table>>

vars == <<inputs, semigroup, pc, fields, cursors, original, library>>

\* ------------------------------------------------------------------------
\* Semigroup
\* ------------------------------------------------------------------------

\* Semigroup::generators
SemigroupGenerators == semigroup.generators

\* Semigroup::id: None unless the handle declares an identity.
SemigroupId ==
    IF declares_id THEN Some(IdentityOf(semigroup.degree)) ELSE None

\* A constructor that takes any list of generators.
TransformationSemigroupNewUnchecked ==
    /\ pc = "semigroup_new"
    /\ pc' = "new"
    /\ semigroup' = [degree     |-> IF Len(gens) > 0 THEN gens[1].degree ELSE 0,
                     generators |-> gens]
    /\ UNCHANGED <<inputs, original, library, fields, cursors>>

\* TransformationSemigroup::new: an error when a generator's degree differs
\* from the degree of the first one.
TransformationSemigroupNew ==
    /\ pc = "semigroup_new"
    /\ LET degree == IF Len(gens) > 0 THEN gens[1].degree ELSE 0
       IN IF \E x \in 2..Len(gens) : gens[x].degree # degree
          THEN /\ pc' = "err"
               /\ UNCHANGED semigroup
          ELSE /\ pc' = "new"
               /\ semigroup' = [degree |-> degree, generators |-> gens]
    /\ UNCHANGED <<inputs, original, library, fields, cursors>>

\* ------------------------------------------------------------------------
\* FroidurePin::new
\* ------------------------------------------------------------------------

\* Itertools::unique: the first occurrence of every value, in order.
RECURSIVE Unique(_)
Unique(s) ==
    IF s = << >> THEN << >>
    ELSE LET init == Unique(SubSeq(s, 1, Len(s) - 1))
         IN IF s[Len(s)] \in Range(init) THEN init
            ELSE Append(init, s[Len(s)])

\* A filter that hands the generators on in reverse order.
FilterGeneratorsReversed(s) ==
    LET kept == SelectSeq(Unique(s), LAMBDA x : ~is_id(x))
    IN [x \in 1..Len(kept) |-> kept[Len(kept) + 1 - x]]

\* The generators FroidurePin::new keeps: unique, then not is_id.
FilterGenerators(s) == SelectSeq(Unique(s), LAMBDA x : ~is_id(x))

\* HashMap::insert
Insert(map, key, val) ==
    [x \in (DOMAIN map) \cup {key} |-> IF x = key THEN val ELSE map[x]]

\* element_map after inserting elements[index] -> index for index = from..
RECURSIVE InsertFrom(_, _, _)
InsertFrom(map, elems, from) ==
    IF from >= Len(elems) THEN map
    ELSE InsertFrom(Insert(map, At(elems, from), from), elems, from + 1)

\* An initialisation that fills the identity column only.
RECURSIVE InitIdentityColumnOnly(_, _, _)
InitIdentityColumnOnly(t, x, k) ==
    IF x > k THEN t
    ELSE InitIdentityColumnOnly(Vec2IndexMut(t, x, 0, Some(x)), x + 1, k)

\* The loop that initialises the identity row and column of a Cayley graph.
RECURSIVE InitIdentity(_, _, _)
InitIdentity(t, x, k) ==
    IF x > k THEN t
    ELSE InitIdentity(
             Vec2IndexMut(Vec2IndexMut(t, x, 0, Some(x)), 0, x, Some(x)),
             x + 1, k)

\* FroidurePin::new on a Semigroup whose id() is Some.
New ==
    /\ pc = "new"
    /\ IsSome(SemigroupId)
    /\ LET gs == FilterGenerators(SemigroupGenerators)
           es == <<Unwrap(SemigroupId)>> \o gs
           k  == Len(gs)
       IN /\ generators' = gs
          /\ elements' = es
          /\ element_map' = InsertFrom(<< >>, es, 0)
          /\ rewrite_rules' = << >>
          /\ prefix' = <<None>> \o [x \in 1..k |-> Some(0)]
          /\ last'   = <<0>> \o [x \in 1..k |-> x]
          /\ suffix' = <<None>> \o [x \in 1..k |-> Some(0)]
          /\ first'  = <<0>> \o [x \in 1..k |-> x]
          /\ length' = <<0>> \o [x \in 1..k |-> 1]
          /\ left_cayley_graph' =
                 InitIdentity(Vec2New(Len(es), Len(es), None), 1, k)
          /\ right_cayley_graph' =
                 InitIdentity(Vec2New(Len(es), Len(es), None), 1, k)
          /\ reduced' = Vec2New(Len(es), Len(es), FALSE)
          /\ current_word_length' = 1
          /\ IF k >= 1
             THEN pc' = "phase1" /\ i' = 1 /\ j' = 1
             ELSE pc' = "phase1_end" /\ UNCHANGED <<i, j>>
    /\ UNCHANGED <<inputs, original, library, semigroup, u, v>>

\* gens.id().unwrap() on a Semigroup that declares no identity.
NewPanic ==
    /\ pc = "new"
    /\ ~IsSome(SemigroupId)
    /\ pc' = "panic"
    /\ UNCHANGED <<inputs, original, library, semigroup, fields, cursors>>

\* ------------------------------------------------------------------------
\* FroidurePin: lookups
\* ------------------------------------------------------------------------

\* The debug_assert! of get_right_cayley_element / get_left_cayley_element.
GeneratorIndexOk(generator_index) ==
    generator_index # 0 /\ generator_index <= Len(generators)

get_right_cayley_element(element, generator_index) ==
    Vec2Index(right_cayley_graph, element, generator_index)

get_left_cayley_element(element, generator_index) ==
    Vec2Index(left_cayley_graph, element, generator_index)

\* The closure of pos_to_word, called n more times from cur_pos.
RECURSIVE WordFrom(_, _)
WordFrom(cur_pos, n) ==
    IF n = 0 THEN << >>
    ELSE <<At(first, cur_pos)>> \o WordFrom(Unwrap(At(suffix, cur_pos)), n - 1)

pos_to_word(pos) == WordFrom(pos, At(length, pos))

\* A word that grows at the front.
WordPrepend(word, a) == <<a>> \o word

\* Word::append
WordAppend(word, a) == Append(word, a)

\* ------------------------------------------------------------------------
\* FroidurePin::run, phase 1: the products of two generators
\* ------------------------------------------------------------------------

Phase1Product == Multiply(At(elements, i), At(elements, j))

\* A cursor that walks the pairs column by column.
Phase1AdvanceColumnMajor ==
    LET k == Len(generators)
    IN IF i < k THEN pc' = "phase1" /\ i' = i + 1 /\ j' = j
       ELSE IF j < k THEN pc' = "phase1" /\ i' = 1 /\ j' = j + 1
       ELSE pc' = "phase1_end" /\ UNCHANGED <<i, j>>

\* The cursor after the pair (i, j).
Phase1Advance ==
    LET k == Len(generators)
    IN IF j < k THEN pc' = "phase1" /\ i' = i /\ j' = j + 1
       ELSE IF i < k THEN pc' = "phase1" /\ i' = i + 1 /\ j' = 1
       ELSE pc' = "phase1_end" /\ UNCHANGED <<i, j>>

\* The debug_assert!s on the sizes after a new element was pushed.
Phase1SizesOk ==
    /\ Len(elements) + 1 = Cardinality(DOMAIN element_map) + 1
    /\ Len(elements) + 1 = Len(first) + 1
    /\ Len(elements) + 1 = Len(last) + 1
    /\ Len(elements) + 1 = Len(prefix) + 1
    /\ Len(elements) + 1 = Len(suffix) + 1

Phase1Aborts ==
    /\ pc = "phase1"
    /\ Phase1Product \notin DOMAIN element_map
    /\ debug_assertions
    /\ ~Phase1SizesOk

\* The product is an element already known: a rewrite rule.
Phase1Known ==
    /\ pc = "phase1"
    /\ Phase1Product \in DOMAIN element_map
    /\ LET index == element_map[Phase1Product]
           rhs   == pos_to_word(index)
           lhs   == WordAppend(pos_to_word(i), j)
       IN /\ rewrite_rules' = Append(rewrite_rules, <<lhs, rhs>>)
          /\ right_cayley_graph' =
                 Vec2IndexMut(right_cayley_graph, i, j, Some(index))
          /\ left_cayley_graph' =
                 Vec2IndexMut(left_cayley_graph, j, i, Some(index))
    /\ Phase1Advance
    /\ UNCHANGED <<inputs, original, library, semigroup, current_word_length, generators,
                   elements, element_map, reduced, prefix, last, suffix,
                   first, length, u, v>>

\* A new element of phase 1 whose cell of reduced is left unmarked.
Phase1NewUnmarked ==
    /\ pc = "phase1"
    /\ Phase1Product \notin DOMAIN element_map
    /\ ~Phase1Aborts
    /\ LET new_pos == Len(elements)
       IN /\ elements' = Append(elements, Phase1Product)
          /\ element_map' = Insert(element_map, Phase1Product, new_pos)
          /\ first' = Append(first, i)
          /\ last' = Append(last, j)
          /\ prefix' = Append(prefix, Some(i))
          /\ suffix' = Append(suffix, Some(j))
          /\ reduced' = Vec2AddRow(reduced, FALSE)
          /\ right_cayley_graph' =
                 Vec2IndexMut(Vec2AddRow(right_cayley_graph, None),
                              i, j, Some(new_pos))
          /\ left_cayley_graph' =
                 Vec2IndexMut(Vec2AddRow(left_cayley_graph, None),
                              j, i, Some(new_pos))
          /\ length' = Append(length, At(length, i) + 1)
    /\ Phase1Advance
    /\ UNCHANGED <<inputs, original, library, semigroup, current_word_length, generators,
                   rewrite_rules, u, v>>

\* The product is a new element.
Phase1New ==
    /\ pc = "phase1"
    /\ Phase1Product \notin DOMAIN element_map
    /\ ~Phase1Aborts
    /\ LET new_pos == Len(elements)
       IN /\ elements' = Append(elements, Phase1Product)
          /\ element_map' = Insert(element_map, Phase1Product, new_pos)
          /\ first' = Append(first, i)
          /\ last' = Append(last, j)
          /\ prefix' = Append(prefix, Some(i))
          /\ suffix' = Append(suffix, Some(j))
          /\ reduced' = Vec2IndexMut(Vec2AddRow(reduced, FALSE), i, j, TRUE)
          /\ right_cayley_graph' =
                 Vec2IndexMut(Vec2AddRow(right_cayley_graph, None),
                              i, j, Some(new_pos))
          /\ left_cayley_graph' =
                 Vec2IndexMut(Vec2AddRow(left_cayley_graph, None),
                              j, i, Some(new_pos))
          /\ length' = Append(length, At(length, i) + 1)
    /\ Phase1Advance
    /\ UNCHANGED <<inputs, original, library, semigroup, current_word_length, generators,
                   rewrite_rules, u, v>>

\* "Then continue unless we found no new elements".
Phase1Return ==
    /\ pc = "phase1_end"
    /\ Len(generators) + 1 = Len(elements)
    /\ pc' = "done"
    /\ UNCHANGED <<inputs, original, library, semigroup, fields, cursors>>

\* Phase 2 entered at the generators, the words of length 1.
Phase2EnterAtGenerators ==
    /\ pc = "phase1_end"
    /\ Len(generators) + 1 # Len(elements)
    /\ current_word_length' = 1
    /\ u' = 1
    /\ v' = 1
    /\ pc' = "right_while"
    /\ UNCHANGED <<inputs, original, library, semigroup, generators, elements, element_map,
                   rewrite_rules, left_cayley_graph, right_cayley_graph,
                   reduced, prefix, last, suffix, first, length, i, j>>

Phase2Enter ==
    /\ pc = "phase1_end"
    /\ Len(generators) + 1 # Len(elements)
    /\ current_word_length' = 2
    /\ u' = Len(generators) + 1
    /\ v' = Len(generators) + 1
    /\ pc' = "right_while"
    /\ UNCHANGED <<inputs, original, library, semigroup, generators, elements, element_map,
                   rewrite_rules, left_cayley_graph, right_cayley_graph,
                   reduced, prefix, last, suffix, first, length, i, j>>

\* ------------------------------------------------------------------------
\* FroidurePin::run, phase 2: the right pass
\* ------------------------------------------------------------------------

\* The condition of both while loops.
WhileCond == u < Len(elements) /\ At(length, u) = current_word_length

\* The right pass takes up the element u, or is over.
RightWhile ==
    /\ pc = "right_while"
    /\ IF WhileCond
       THEN /\ IsSome(At(suffix, u))
            /\ pc' = "right" /\ i' = 1 /\ u' = u
       ELSE /\ pc' = "left_while" /\ u' = v /\ i' = i
    /\ UNCHANGED <<inputs, original, library, semigroup, fields, j, v>>

\* The last letter of u taken for its first.
RightFirstFromLast == At(last, u)

RightFirst == At(first, u)

\* The prefix of u taken for its suffix.
RightSuffixFromPrefix == Unwrap(At(prefix, u))

RightSuffix == Unwrap(At(suffix, u))

RightReduced == Vec2Index(reduced, RightSuffix, i)

\* s * a_i, read from the right Cayley graph.
SuffixGen == get_right_cayley_element(RightSuffix, i)

\* The chain of lookups of the structural shortcut for t = s * a_i # 0; each
\* is an Option, None when a lookup before it failed.
ShortcutPrefix == IF IsSome(SuffixGen) THEN At(prefix, Unwrap(SuffixGen)) ELSE None

ShortcutLast == At(last, Unwrap(SuffixGen))

ShortcutFirstPrefix ==
    IF IsSome(ShortcutPrefix)
    THEN get_left_cayley_element(Unwrap(ShortcutPrefix), RightFirst)
    ELSE None

ShortcutFirstPrefixLast ==
    IF IsSome(ShortcutFirstPrefix)
    THEN get_right_cayley_element(Unwrap(ShortcutFirstPrefix), ShortcutLast)
    ELSE None

RightProduct == Multiply(At(elements, u), At(elements, i))

\* A right pass that hands over to the left pass after one element.
RightAdvanceOneElement ==
    IF i < Len(generators)
    THEN pc' = "right" /\ i' = i + 1 /\ u' = u
    ELSE pc' = "left_while" /\ i' = i /\ u' = v

\* The cursor after the generator i of the element u.
RightAdvance ==
    IF i < Len(generators)
    THEN pc' = "right" /\ i' = i + 1 /\ u' = u
    ELSE pc' = "right_while" /\ i' = i /\ u' = u + 1

\* A failed expect or debug_assert! of the right pass.
RightAborts ==
    \/ /\ pc = "right_while"
       /\ WhileCond
       /\ ~IsSome(At(suffix, u))
    \/ /\ pc = "right"
       /\ ~RightReduced
       /\ \/ debug_assertions /\ ~GeneratorIndexOk(i)
          \/ ~IsSome(SuffixGen)
          \/ /\ IsSome(SuffixGen)
             /\ Unwrap(SuffixGen) # 0
             /\ \/ ~IsSome(ShortcutPrefix)
                \/ ~IsSome(ShortcutFirstPrefix)
                \/ ~IsSome(ShortcutFirstPrefixLast)
                \/ debug_assertions /\ ~GeneratorIndexOk(RightFirst)
                \/ debug_assertions /\ ~GeneratorIndexOk(ShortcutLast)
          \/ debug_assertions /\ IsSome(Vec2Index(right_cayley_graph, u, i))
    \/ /\ pc = "right"
       /\ RightReduced
       /\ RightProduct \notin DOMAIN element_map
       /\ \/ ~IsSome(SuffixGen)
          \/ debug_assertions /\ ~GeneratorIndexOk(i)
          \/ debug_assertions /\ IsSome(Vec2Index(right_cayley_graph, u, i))

\* s * a_i is not reduced and is the identity: u * a_i is the generator first.
RightShortcutIdentity ==
    /\ pc = "right"
    /\ ~RightReduced
    /\ ~RightAborts
    /\ Unwrap(SuffixGen) = 0
    /\ right_cayley_graph' =
           Vec2IndexMut(right_cayley_graph, u, i, Some(RightFirst))
    /\ RightAdvance
    /\ UNCHANGED <<inputs, original, library, semigroup, current_word_length, generators,
                   elements, element_map, rewrite_rules, left_cayley_graph,
                   reduced, prefix, last, suffix, first, length, j, v>>

\* s * a_i is not reduced and not the identity: u * a_i is read off the
\* graphs as (a_first * prefix(t)) * last(t).
RightShortcut ==
    /\ pc = "right"
    /\ ~RightReduced
    /\ ~RightAborts
    /\ Unwrap(SuffixGen) # 0
    /\ right_cayley_graph' =
           Vec2IndexMut(right_cayley_graph, u, i,
                        Some(Unwrap(ShortcutFirstPrefixLast)))
    /\ RightAdvance
    /\ UNCHANGED <<inputs, original, library, semigroup, current_word_length, generators,
                   elements, element_map, rewrite_rules, left_cayley_graph,
                   reduced, prefix, last, suffix, first, length, j, v>>

\* s * a_i is reduced and u * a_i is an element already known: a rule.
RightKnown ==
    /\ pc = "right"
    /\ RightReduced
    /\ RightProduct \in DOMAIN element_map
    /\ LET index == element_map[RightProduct]
           rhs   == pos_to_word(index)
           lhs   == WordAppend(pos_to_word(u), i)
       IN /\ rewrite_rules' = Append(rewrite_rules, <<lhs, rhs>>)
          /\ right_cayley_graph' =
                 Vec2IndexMut(right_cayley_graph, u, i, Some(index))
    /\ RightAdvance
    /\ UNCHANGED <<inputs, original, library, semigroup, current_word_length, generators,
                   elements, element_map, left_cayley_graph, reduced, prefix,
                   last, suffix, first, length, j, v>>

\* s * a_i is reduced and u * a_i is a new element.
RightNew ==
    /\ pc = "right"
    /\ RightReduced
    /\ RightProduct \notin DOMAIN element_map
    /\ ~RightAborts
    /\ LET new_pos == Len(elements)
       IN /\ elements' = Append(elements, RightProduct)
          /\ element_map' = Insert(element_map, RightProduct, new_pos)
          /\ first' = Append(first, RightFirst)
          /\ last' = Append(last, i)
          /\ prefix' = Append(prefix, Some(u))
          /\ suffix' = Append(suffix, Some(Unwrap(SuffixGen)))
          /\ reduced' = Vec2IndexMut(Vec2AddRow(reduced, FALSE), u, i, TRUE)
          /\ right_cayley_graph' =
                 Vec2IndexMut(Vec2AddRow(right_cayley_graph, None),
                              u, i, Some(new_pos))
          /\ left_cayley_graph' = Vec2AddRow(left_cayley_graph, None)
          /\ length' = Append(length, At(length, u) + 1)
    /\ RightAdvance
    /\ UNCHANGED <<inputs, original, library, semigroup, current_word_length, generators,
                   rewrite_rules, j, v>>

\* ------------------------------------------------------------------------
\* FroidurePin::run, phase 2: the left pass
\* ------------------------------------------------------------------------

\* The left pass takes up the element u, or is over.
LeftWhile ==
    /\ pc = "left_while"
    /\ IF WhileCond
       THEN /\ IsSome(At(prefix, u))
            /\ pc' = "left" /\ i' = 1
       ELSE /\ pc' = "advance" /\ i' = i
    /\ UNCHANGED <<inputs, original, library, semigroup, fields, j, u, v>>

LeftPrefix == Unwrap(At(prefix, u))

\* The first letter of u taken for its last.
LeftLastFromFirst == At(first, u)

LeftLast == At(last, u)

\* a_i * prefix(u)
LeftAp == get_left_cayley_element(LeftPrefix, i)

\* (a_i * prefix(u)) * last(u)
LeftRes ==
    IF IsSome(LeftAp)
    THEN get_right_cayley_element(Unwrap(LeftAp), LeftLast)
    ELSE None

\* A failed expect or debug_assert! of the left pass.
LeftAborts ==
    \/ /\ pc = "left_while"
       /\ WhileCond
       /\ ~IsSome(At(prefix, u))
    \/ /\ pc = "left"
       /\ \/ ~IsSome(LeftAp)
          \/ ~IsSome(LeftRes)
          \/ debug_assertions /\ ~GeneratorIndexOk(i)
          \/ debug_assertions /\ ~GeneratorIndexOk(LeftLast)

\* A left pass that never moves on to the next element.
LeftStepStuck ==
    /\ pc = "left"
    /\ ~LeftAborts
    /\ left_cayley_graph' =
           Vec2IndexMut(left_cayley_graph, u, i, Some(Unwrap(LeftRes)))
    /\ IF i < Len(generators)
       THEN pc' = "left" /\ i' = i + 1 /\ u' = u
       ELSE pc' = "left_while" /\ i' = i /\ u' = u
    /\ UNCHANGED <<inputs, original, library, semigroup, current_word_length, generators,
                   elements, element_map, rewrite_rules, right_cayley_graph,
                   reduced, prefix, last, suffix, first, length, j, v>>

\* a_i * u is read off the graphs as (a_i * prefix(u)) * last(u).
LeftStep ==
    /\ pc = "left"
    /\ ~LeftAborts
    /\ left_cayley_graph' =
           Vec2IndexMut(left_cayley_graph, u, i, Some(Unwrap(LeftRes)))
    /\ IF i < Len(generators)
       THEN pc' = "left" /\ i' = i + 1 /\ u' = u
       ELSE pc' = "left_while" /\ i' = i /\ u' = u + 1
    /\ UNCHANGED <<inputs, original, library, semigroup, current_word_length, generators,
                   elements, element_map, rewrite_rules, right_cayley_graph,
                   reduced, prefix, last, suffix, first, length, j, v>>

\* The end of the loop body: on to the next word length, or out.
Advance ==
    /\ pc = "advance"
    /\ v' = u
    /\ current_word_length' = current_word_length + 1
    /\ pc' = IF u = Len(elements) THEN "done" ELSE "right_while"
    /\ UNCHANGED <<inputs, original, library, semigroup, generators, elements, element_map,
                   rewrite_rules, left_cayley_graph, right_cayley_graph,
                   reduced, prefix, last, suffix, first, length, i, j, u>>

\* FroidurePinBuilder::build, after run() returned: the result bundle takes
\* generators, elements, element_map, rewrite_rules and both Cayley graphs.
Build ==
    /\ pc = "done"
    /\ pc' = "built"
    /\ UNCHANGED <<inputs, original, library, semigroup, fields, cursors>>

\* ------------------------------------------------------------------------
\* froidure_pin_simple
\* ------------------------------------------------------------------------

\* No library function has been called.
NoCall == [op |-> "none"]

\* Alphabet::collapse_word of a word that is not empty; the symbol a stands
\* for the generator of index a of the Semigroup.
RECURSIVE CollapseWord(_)
CollapseWord(word) ==
    IF Len(word) = 1 THEN At(SemigroupGenerators, word[1])
    ELSE Multiply(CollapseWord(SubSeq(word, 1, Len(word) - 1)),
                  At(SemigroupGenerators, word[Len(word)]))

\* The body of the loop over the symbols, for the word u and the symbol gen.
SimpleStep(st, word_u, gen) ==
    LET new_word == WordAppend(word_u, gen)
        collapse == CollapseWord(new_word)
    IN IF collapse \notin DOMAIN st.elements
       THEN [st EXCEPT !.words    = Append(st.words, new_word),
                       !.elements = Insert(st.elements, collapse, Len(st.words))]
       ELSE [st EXCEPT !.relations =
                           Insert(st.relations, new_word,
                                  At(st.words, st.elements[collapse]))]

\* for gen in &symbols, from the symbol number x of the list on.
RECURSIVE SimpleSymbols(_, _, _, _)
SimpleSymbols(st, word_u, symbols, x) ==
    IF x > Len(symbols) THEN st
    ELSE SimpleSymbols(SimpleStep(st, word_u, symbols[x]), word_u, symbols, x + 1)

\* An enumerator that stops after the first word.
SimpleLoopOnce(st, u_pos, symbols) ==
    SimpleSymbols(st, At(st.words, u_pos), symbols, 1)

\* The loop over the words: u is words[u_pos], and the next word is taken
\* up unless u is the last one.
RECURSIVE SimpleLoop(_, _, _)
SimpleLoop(st, u_pos, symbols) ==
    LET next == SimpleSymbols(st, At(st.words, u_pos), symbols, 1)
    IN IF u_pos # Len(next.words) - 1
       THEN SimpleLoop(next, u_pos + 1, symbols)
       ELSE next

\* froidure_pin_simple for the symbols in the order the alphabet's map
\* hands them out: the words, the keys of elements, and the relations.
froidure_pin_simple(symbols) ==
    LET start == [words     |-> << << >> >>,
                  elements  |-> IF IsSome(SemigroupId)
                                THEN Insert(<< >>, Unwrap(SemigroupId), 0)
                                ELSE << >>,
                  relations |-> << >>]
        end   == SimpleLoop(start, 0, symbols)
    IN [words |-> end.words, elems |-> DOMAIN end.elements,
        relations |-> end.relations]

\* The orders a map of the symbols 0..n-1 may hand its keys out in.
SymbolOrders(n) ==
    { order \in [1..n -> 0..(n - 1)] :
          \A x, y \in 1..n : order[x] = order[y] => x = y }

\* The caller enumerates the semigroup with froidure_pin_simple, which
\* borrows it as the builder does: next to the result the engine has built
\* for it, or alone when the semigroup declares no identity to build with.
FroidurePinSimple ==
    /\ \/ pc = "built"
       \/ pc = "new" /\ ~declares_id
    /\ call = NoCall
    /\ \E symbols \in SymbolOrders(Len(SemigroupGenerators)) :
           LET res == froidure_pin_simple(symbols)
           IN call' = [op |-> "simple", semigroup |-> semigroup,
                       symbols |-> symbols,
                       words |-> res.words, elems |-> res.elems,
                       relations |-> res.relations]
    /\ UNCHANGED <<inputs, original, semigroup, pc, fields, cursors, table>>

\* The FroidurePinResult build() returns.
Result ==
    [generators         |-> generators,
     elements           |-> elements,
     element_map        |-> element_map,
     rewrite_rules      |-> rewrite_rules,
     left_cayley_graph  |-> left_cayley_graph,
     right_cayley_graph |-> right_cayley_graph]

\* The state before TransformationSemigroup::new and FroidurePin::new.
Unbuilt ==
    /\ semigroup = [degree |-> 0, generators |-> << >>]
    /\ current_word_length = 0
    /\ generators = << >>
    /\ elements = << >>
    /\ element_map = << >>
    /\ rewrite_rules = << >>
    /\ left_cayley_graph = Vec2New(0, 0, None)
    /\ right_cayley_graph = Vec2New(0, 0, None)
    /\ reduced = Vec2New(0, 0, None)
    /\ prefix = << >>
    /\ last = << >>
    /\ suffix = << >>
    /\ first = << >>
    /\ length = << >>
    /\ i = 0 /\ j = 0 /\ u = 0 /\ v = 0

\* The caller keeps the result and builds once more, either from the same
\* generators or from the generators the result returned, with the same
\* identity; it does so before it calls the simple enumerator, if it does.
Rebuild ==
    /\ pc = "built"
    /\ original = None
    /\ call = NoCall
    /\ original' = Some(Result)
    /\ \E returned \in BOOLEAN :
           gens' = IF returned THEN generators ELSE SemigroupGenerators
    /\ semigroup' = [degree |-> 0, generators |-> << >>]
    /\ pc' = "semigroup_new"
    /\ current_word_length' = 0
    /\ generators' = << >>
    /\ elements' = << >>
    /\ element_map' = << >>
    /\ rewrite_rules' = << >>
    /\ left_cayley_graph' = Vec2New(0, 0, None)
    /\ right_cayley_graph' = Vec2New(0, 0, None)
    /\ reduced' = Vec2New(0, 0, None)
    /\ prefix' = << >>
    /\ last' = << >>
    /\ suffix' = << >>
    /\ first' = << >>
    /\ length' = << >>
    /\ i' = 0 /\ j' = 0 /\ u' = 0 /\ v' = 0
    /\ UNCHANGED <<declares_id, debug_assertions, library>>

\* A failed expect or debug_assert! ends run() with a panic.
RunAborts == Phase1Aborts \/ RightAborts \/ LeftAborts

RunPanic ==
    /\ RunAborts
    /\ pc' = "panic"
    /\ UNCHANGED <<inputs, original, library, semigroup, fields, cursors>>

\* ------------------------------------------------------------------------
\* Specification
\* ------------------------------------------------------------------------

EmptyVec2 == Vec2New(0, 0, None)

Init ==
    /\ gens \in GenLists
    /\ declares_id \in BOOLEAN
    /\ debug_assertions \in BOOLEAN
    /\ Unbuilt
    /\ pc = "semigroup_new"
    /\ original = None
    /\ call = NoCall
    /\ table = EmptyVec2

Next ==
    \/ TransformationSemigroupNew
    \/ FroidurePinSimple
    \/ New
    \/ NewPanic
    \/ Phase1Known
    \/ Phase1New
    \/ Phase1Return
    \/ Phase2Enter
    \/ RightWhile
    \/ RightShortcutIdentity
    \/ RightShortcut
    \/ RightKnown
    \/ RightNew
    \/ LeftWhile
    \/ LeftStep
    \/ Advance
    \/ Build
    \/ Rebuild
    \/ RunPanic

Spec == Init /\ [][Next]_vars

\* The steps of the engine and of its builder; the naive enumerator is a
\* call the program may make or not.
Engine ==
    \/ TransformationSemigroupNew
    \/ New
    \/ NewPanic
    \/ Phase1Known
    \/ Phase1New
    \/ Phase1Return
    \/ Phase2Enter
    \/ RightWhile
    \/ RightShortcutIdentity
    \/ RightShortcut
    \/ RightKnown
    \/ RightNew
    \/ LeftWhile
    \/ LeftStep
    \/ Advance
    \/ Build
    \/ Rebuild
    \/ RunPanic

\* The program is one thread that runs to completion: a step of the engine
\* that can be taken is taken.
FairSpec == Spec /\ WF_vars(Engine)

\* ------------------------------------------------------------------------
\* The library functions, called on their own
\* ------------------------------------------------------------------------

\* Result<T, TransformationError>, and a call that panicked.
Ok(x) == [tag |-> "Ok", val |-> x]

Err(e) == [tag |-> "Err", err |-> e]

Panicked == [tag |-> "Panic"]

IsOk(r) == r.tag = "Ok"

\* Transformation::from_vec_unchecked
from_vec_unchecked(degree, vals) == [degree |-> degree, vals |-> vals]

\* A from_vec that looks at the images only, not at their number.
from_vec_any_length(degree, vals) ==
    IF \E p \in 1..Len(vals) : ~(vals[p] < degree)
    THEN Err("InvalidImage")
    ELSE Ok(from_vec_unchecked(degree, vals))

\* Transformation::from_vec
from_vec(degree, vals) ==
    IF Len(vals) # degree \/ \E p \in 1..Len(vals) : ~(vals[p] < degree)
    THEN Err("InvalidImage")
    ELSE Ok(from_vec_unchecked(degree, vals))

\* Transformation::id: the images are collected from the range 0..degree-1,
\* which ends before degree - 1.
TransformationId(degree) ==
    [degree |-> degree,
     vals   |-> IF degree > 0 THEN [p \in 1..(degree - 1) |-> p - 1] ELSE << >>]

\* Transformation::is_id
TransformationIsId(f) == \A p \in 1..Len(f.vals) : p - 1 = f.vals[p]

\* Transformation::apply; indexing vals beyond its length panics.
TransformationApply(f, x) ==
    IF x < f.degree
    THEN IF x < Len(f.vals) THEN Ok(At(f.vals, x)) ELSE Panicked
    ELSE Err("InvalidPoint")

\* other.apply(self.apply(x).unwrap()).unwrap(): None when an unwrap or an
\* index panics.
ImageOfImage(f, g, x) ==
    LET y == TransformationApply(f, x)
    IN IF IsOk(y)
       THEN LET z == TransformationApply(g, y.val)
            IN IF IsOk(z) THEN Some(z.val) ELSE None
       ELSE None

\* Transformation::multiply
TransformationMultiply(f, g) ==
    IF f.degree = g.degree
    THEN IF \A x \in 0..(f.degree - 1) : IsSome(ImageOfImage(f, g, x))
         THEN Ok(from_vec_unchecked(
                  f.degree,
                  [p \in 1..f.degree |-> Unwrap(ImageOfImage(f, g, p - 1))]))
         ELSE Panicked
    ELSE Err("MismatchingDegree")

\* The arguments a caller hands to from_vec.
Degrees == 0..MaxDegree

ImageLists == UNION { [1..n -> 0..MaxDegree] : n \in 0..MaxDegree }

\* The transformations a caller of the crate can hold: those from_vec
\* returned and those id returned (products of these are among them, or
\* panics).
FromVecs ==
    { from_vec(d, vals).val :
          <<d, vals>> \in { a \in Degrees \X ImageLists : IsOk(from_vec(a[1], a[2])) } }

Ids == { TransformationId(d) : d \in Degrees }

Transformations == FromVecs \cup Ids

\* The values a caller writes to its Vec2<Option<usize>>.
Cells == {None, Some(0), Some(1)}

CallFrame == <<inputs, original, semigroup, fields, cursors>>

CallFromVec ==
    /\ pc = "call"
    /\ \E degree \in Degrees, vals \in ImageLists :
           call' = [op |-> "from_vec", degree |-> degree, vals |-> vals,
                    result |-> from_vec(degree, vals)]
    /\ pc' = "returned"
    /\ UNCHANGED <<CallFrame, table>>

CallId ==
    /\ pc = "call"
    /\ \E degree \in Degrees :
           call' = [op |-> "id", degree |-> degree,
                    result |-> TransformationId(degree)]
    /\ pc' = "returned"
    /\ UNCHANGED <<CallFrame, table>>

CallApply ==
    /\ pc = "call"
    /\ \E f \in Transformations, x \in 0..(MaxDegree + 1) :
           call' = [op |-> "apply", f |-> f, x |-> x,
                    result |-> TransformationApply(f, x)]
    /\ pc' = "returned"
    /\ UNCHANGED <<CallFrame, table>>

CallMultiply ==
    /\ pc = "call"
    /\ \E f \in Transformations, g \in Transformations :
           call' = [op |-> "multiply", f |-> f, g |-> g,
                    result |-> TransformationMultiply(f, g)]
    /\ pc' = "returned"
    /\ UNCHANGED <<CallFrame, table>>

\* Vec2::new(n_rows, n_cols) of Option<usize>, whose default is None.
CallVec2New ==
    /\ pc = "call"
    /\ \E n_rows \in 0..MaxDim, n_cols \in 0..MaxDim :
           /\ table' = Vec2New(n_rows, n_cols, None)
           /\ call' = [op |-> "vec2_new", n_rows |-> n_rows, n_cols |-> n_cols,
                       writes |-> 0, adds |-> 0,
                       shadow |-> [c \in (0..(n_rows - 1)) \X (0..(n_cols - 1))
                                       |-> None]]
    /\ pc' = "table"
    /\ UNCHANGED CallFrame

\* table[(row, col)] = val, for a cell of the table.
CallVec2Write ==
    /\ pc = "table"
    /\ call.writes < MaxWrites
    /\ \E row \in 0..(table.n_rows - 1), col \in 0..(table.n_cols - 1),
          val \in Cells :
           /\ table' = Vec2IndexMut(table, row, col, val)
           /\ call' = [op |-> "vec2_write", row |-> row, col |-> col,
                       val |-> val, before |-> table,
                       writes |-> call.writes + 1, adds |-> call.adds,
                       shadow |-> [call.shadow EXCEPT ![<<row, col>>] = val]]
    /\ pc' = "table"
    /\ UNCHANGED CallFrame

\* Index for Vec2: the flat vector checks the flat index only.
Vec2Get(t, row, col) ==
    IF row * t.n_cols + col < Len(t.vec)
    THEN Ok(Vec2Index(t, row, col))
    ELSE Panicked

\* table[(row, col)], for any coordinates up to one beyond the table.
CallVec2Read ==
    /\ pc = "table"
    /\ \E row \in 0..table.n_rows, col \in 0..table.n_cols :
           call' = [op |-> "vec2_read", row |-> row, col |-> col,
                    before |-> table, result |-> Vec2Get(table, row, col)]
    /\ pc' = "returned"
    /\ UNCHANGED <<CallFrame, table>>

\* table[(row, col)] = val, for coordinates that are not those of a cell.
CallVec2WriteOutside ==
    /\ pc = "table"
    /\ \E row \in 0..table.n_rows, col \in 0..table.n_cols, val \in Cells :
           /\ ~(row < table.n_rows /\ col < table.n_cols)
           /\ IF row * table.n_cols + col < Len(table.vec)
              THEN /\ table' = Vec2IndexMut(table, row, col, val)
                   /\ call' = [op |-> "vec2_write_outside", row |-> row,
                               col |-> col, before |-> table,
                               result |-> Ok(val)]
              ELSE /\ table' = table
                   /\ call' = [op |-> "vec2_write_outside", row |-> row,
                               col |-> col, before |-> table,
                               result |-> Panicked]
    /\ pc' = "returned"
    /\ UNCHANGED CallFrame

\* The last value written to each cell of the grown table, None for the
\* cells nothing was written to.
GrownShadow(t) ==
    [c \in (0..(t.n_rows - 1)) \X (0..(t.n_cols - 1)) |->
        IF c \in DOMAIN call.shadow THEN call.shadow[c] ELSE None]

\* table.add_row()
CallVec2AddRow ==
    /\ pc = "table"
    /\ call.adds < MaxAdds
    /\ table' = Vec2AddRow(table, None)
    /\ call' = [op |-> "vec2_add_row", before |-> table,
                writes |-> call.writes, adds |-> call.adds + 1,
                shadow |-> GrownShadow(Vec2AddRow(table, None))]
    /\ pc' = "table"
    /\ UNCHANGED CallFrame

\* table.add_col()
CallVec2AddCol ==
    /\ pc = "table"
    /\ call.adds < MaxAdds
    /\ table' = Vec2AddCol(table, None)
    /\ call' = [op |-> "vec2_add_col", before |-> table,
                writes |-> call.writes, adds |-> call.adds + 1,
                shadow |-> GrownShadow(Vec2AddCol(table, None))]
    /\ pc' = "table"
    /\ UNCHANGED CallFrame

CallInit ==
    /\ gens = << >>
    /\ declares_id = FALSE
    /\ debug_assertions = FALSE
    /\ Unbuilt
    /\ pc = "call"
    /\ original = None
    /\ call = NoCall
    /\ table = EmptyVec2

CallNext ==
    \/ CallFromVec
    \/ CallId
    \/ CallApply
    \/ CallMultiply
    \/ CallVec2New
    \/ CallVec2Write
    \/ CallVec2AddRow
    \/ CallVec2AddCol
    \/ CallVec2Read
    \/ CallVec2WriteOutside

CallSpec == CallInit /\ [][CallNext]_vars

\* ------------------------------------------------------------------------
\* Vocabulary of the properties
\* ------------------------------------------------------------------------

\* The number of elements and of generators.
N == Len(elements)

K == Len(generators)

\* FroidurePin::new has returned and run() has not panicked.
Constructed == pc \notin {"semigroup_new", "err", "new", "panic"}

\* build() has returned the result bundle.
Built == pc = "built"

\* The identity of the monoid the run is about.
Identity == IdentityOf(semigroup.degree)

\* The monoid the Semigroup handle generates: the identity and every finite
\* product of the generators it was given.
RECURSIVE Closure(_)
Closure(S) ==
    LET T == S \cup { Multiply(a, g) : a \in S, g \in Range(SemigroupGenerators) }
    IN IF T = S THEN S ELSE Closure(T)

Monoid == Closure({Identity})

\* The product of the generators a word of generator indices names; the
\* empty word names the identity.
RECURSIVE Eval(_)
Eval(w) ==
    IF w = << >> THEN Identity
    ELSE Multiply(Eval(SubSeq(w, 1, Len(w) - 1)), generators[w[Len(w)]])

\* Lexicographic order on words of the same length.
RECURSIVE LexLess(_, _)
LexLess(a, b) ==
    /\ a # << >>
    /\ \/ a[1] < b[1]
       \/ a[1] = b[1] /\ LexLess(Tail(a), Tail(b))

\* Shortlex (military) order: shorter first, then lexicographic.
ShortlexLess(a, b) ==
    \/ Len(a) < Len(b)
    \/ Len(a) = Len(b) /\ LexLess(a, b)

\* The words over the generator indices 1..K of length at most n.
WordsUpTo(n) == UNION { [1..m -> 1..K] : m \in 0..n }

\* w is the shortlex-least word that evaluates to the element e.
IsShortlexWordOf(w, e) ==
    /\ Eval(w) = e
    /\ \A x \in WordsUpTo(Len(w)) : Eval(x) = e => ~ShortlexLess(x, w)

\* The generator g names, g = 0 being the identity column.
Generator(g) == IF g = 0 THEN Identity ELSE generators[g]

\* ------------------------------------------------------------------------
\* Properties
\* ------------------------------------------------------------------------

\* C1: the elements of the result are the identity and every finite product
\* of the generators, each exactly once and nothing else, so that their
\* number is the order of the generated monoid.
C1_ElementsAreTheMonoid ==
    Built =>
        /\ Range(elements) = Monoid
        /\ \A x, y \in 1..N : elements[x] = elements[y] => x = y
        /\ N = Cardinality(Monoid)

\* C2 (P3, closure): when run() has terminated, every cell (u, g) of both
\* Cayley graphs with u < N and g in 0..K is determined, and it holds the
\* index of elements[u] * g on the right and of g * elements[u] on the left.
C2_Closure ==
    pc \in {"done", "built"} =>
        \A x \in 0..(N - 1), g \in 0..K :
            /\ IsSome(Vec2Index(right_cayley_graph, x, g))
            /\ IsSome(Vec2Index(left_cayley_graph, x, g))
            /\ At(elements, Unwrap(Vec2Index(right_cayley_graph, x, g)))
                   = Multiply(At(elements, x), Generator(g))
            /\ At(elements, Unwrap(Vec2Index(left_cayley_graph, x, g)))
                   = Multiply(Generator(g), At(elements, x))

\* C3 (P4, shortlex order): after every insertion and at termination, the
\* elements are listed by increasing length, elements of the same length by
\* lexicographically increasing word, and the word of an element is the
\* shortlex-least word that evaluates to it.
C3_ShortlexOrder ==
    Constructed =>
        /\ \A x, y \in 0..(N - 1) :
               x < y =>
                   /\ At(length, x) <= At(length, y)
                   /\ At(length, x) = At(length, y)
                          => LexLess(pos_to_word(x), pos_to_word(y))
        /\ \A x \in 0..(N - 1) :
               IsShortlexWordOf(pos_to_word(x), At(elements, x))

\* C4 (P2, bijection): after construction, after every insertion and at
\* termination the index map sends elements[x] to x, and it has as many
\* entries as there are elements.
C4_Bijection ==
    Constructed =>
        /\ \A x \in 0..(N - 1) :
               /\ At(elements, x) \in DOMAIN element_map
               /\ element_map[At(elements, x)] = x
        /\ Cardinality(DOMAIN element_map) = N

\* C5 (P6, rewrite soundness): both sides of every rewrite rule evaluate to
\* the same element, the left side is shortlex-greater than the right side,
\* and the right side is the shortlex word of that element.
C5_RewriteSoundness ==
    Constructed =>
        \A r \in 1..Len(rewrite_rules) :
            LET lhs == rewrite_rules[r][1]
                rhs == rewrite_rules[r][2]
            IN /\ Eval(lhs) = Eval(rhs)
               /\ ShortlexLess(rhs, lhs)
               /\ IsShortlexWordOf(rhs, Eval(lhs))

\* C6 (P5, identity column): with a declared identity, column 0 of both
\* returned graphs holds Some(u) in every row u, row 0 and the rows of the
\* elements found by run() included.
C6_IdentityColumn ==
    Built =>
        \A x \in 0..(N - 1) :
            /\ Vec2Index(right_cayley_graph, x, 0) = Some(x)
            /\ Vec2Index(left_cayley_graph, x, 0) = Some(x)

\* The determined cells of a graph hold element indices.
CellsInRange(t) ==
    \A x \in 1..Len(t.vec) :
        IsSome(t.vec[x]) => Unwrap(t.vec[x]) \in 0..(N - 1)

\* C7: in the result both Cayley graphs have N rows and K + 1 columns, and
\* every determined cell holds an element index below N.
C7_TableShape ==
    Built =>
        /\ right_cayley_graph.n_rows = N
        /\ right_cayley_graph.n_cols = K + 1
        /\ Len(right_cayley_graph.vec) = N * (K + 1)
        /\ left_cayley_graph.n_rows = N
        /\ left_cayley_graph.n_cols = K + 1
        /\ Len(left_cayley_graph.vec) = N * (K + 1)
        /\ CellsInRange(right_cayley_graph)
        /\ CellsInRange(left_cayley_graph)

\* A result whose graphs grew by rows during run() and hold determined cells
\* in the rows that were added.
C7_Witness ==
    /\ Built
    /\ N > K + 1
    /\ IsSome(Vec2Index(right_cayley_graph, N - 1, K))
    /\ IsSome(Vec2Index(left_cayley_graph, N - 1, K))

\* C8: the generators of the result are the generators the handle was
\* given without duplicates and without the identity, in the order of their
\* first occurrence, and generator x is stored at element index x.
C8_GeneratorsFiltered ==
    Built =>
        /\ generators = SelectSeq(Unique(SemigroupGenerators),
                                  LAMBDA x : x # Identity)
        /\ \A x \in 1..K : At(elements, x) = generators[x]

\* C9: an identity in the generator list is not kept as a generator and not
\* stored a second time: it occurs once in elements, at index 0, and the
\* monoid generated by the identity alone has exactly one element.
C9_IdentityGenerator ==
    (Built /\ Identity \in Range(SemigroupGenerators)) =>
        /\ Identity \notin Range(generators)
        /\ \A x \in 0..(N - 1) : At(elements, x) = Identity <=> x = 0
        /\ SemigroupGenerators = <<Identity>> => N = 1

\* C10: without a declared identity neither construction nor build() aborts,
\* the elements start with the first generator at index 0, and the empty
\* generator list yields a result with no elements.
C10_NoIdentity ==
    ~declares_id =>
        /\ pc # "panic"
        /\ Built => /\ \A x \in 1..K : At(elements, x - 1) = generators[x]
                    /\ SemigroupGenerators = << >> => N = 0

\* C11: run() terminates.  Every pass of the outer loop leaves the cursor u
\* beyond the element v it started at, the loop is left exactly when u has
\* reached the end of elements after a left pass, and a run that was started
\* comes to its end.
C11_Termination ==
    /\ [][pc = "advance" =>
            /\ u > v
            /\ pc' = "done" <=> u = Len(elements)]_vars
    /\ (pc = "new" /\ declares_id) ~> (pc \in {"done", "panic"})
    /\ (pc = "phase1_end") ~> (pc = "done")

\* A run that left the loop after several passes.
C11_Witness ==
    /\ pc = "done"
    /\ current_word_length >= 4
    /\ u = Len(elements)

\* C12: every value the right pass and the left pass unwrap is determined
\* when it is read, and every generator index handed to a Cayley lookup lies
\* in 1..k.  Right pass: suffix[u], t = R[suffix[u],g], prefix[t],
\* L[prefix[t],first[u]], R[L[prefix[t],first[u]],last[t]].  Left pass:
\* prefix[u], L[prefix[u],g], R[L[prefix[u],g],last[u]].
C12_LookupsDetermined ==
    /\ (pc \in {"right_while", "left_while"} /\ WhileCond) =>
           /\ IsSome(At(suffix, u))
           /\ IsSome(At(prefix, u))
    /\ pc = "right" =>
           /\ IsSome(At(suffix, u))
           /\ GeneratorIndexOk(i)
           /\ IsSome(SuffixGen)
           /\ (~RightReduced /\ Unwrap(SuffixGen) # 0) =>
                  /\ IsSome(ShortcutPrefix)
                  /\ GeneratorIndexOk(RightFirst)
                  /\ IsSome(ShortcutFirstPrefix)
                  /\ GeneratorIndexOk(ShortcutLast)
                  /\ IsSome(ShortcutFirstPrefixLast)
    /\ pc = "left" =>
           /\ IsSome(At(prefix, u))
           /\ GeneratorIndexOk(i)
           /\ IsSome(LeftAp)
           /\ GeneratorIndexOk(LeftLast)
           /\ IsSome(LeftRes)

\* The right pass is at a product that is not reduced and not the identity,
\* so the whole chain of the shortcut is read; a left pass is reached too.
C12_Witness ==
    /\ pc = "right"
    /\ ~RightReduced
    /\ IsSome(SuffixGen)
    /\ Unwrap(SuffixGen) # 0
    /\ IsSome(ShortcutFirstPrefixLast)
    /\ Unwrap(ShortcutPrefix) # 0
    /\ current_word_length >= 3

\* C13: building again, from the same generators or from the generators the
\* result returned, with the same identity, gives a result bundle equal to
\* the first: generators, elements, element_map, rewrite_rules and both
\* Cayley graphs.
C13_Idempotence ==
    (Built /\ IsSome(original)) => Result = Unwrap(original)

\* A second build of a monoid with more elements than generators came to
\* its end.
C13_Witness ==
    /\ Built
    /\ IsSome(original)
    /\ K = 2
    /\ N > 3
    /\ Len(rewrite_rules) > 0

\* The word b occurs in the word a at the positions p..p+Len(b)-1.
FactorAt(a, b, p) == p + Len(b) - 1 <= Len(a) /\ SubSeq(a, p, p + Len(b) - 1) = b

HasFactor(a, b) == \E p \in 1..(Len(a) + 1) : FactorAt(a, b, p)

\* The rules whose lhs occurs in the word w.
Applicable(w) ==
    { r \in 1..Len(rewrite_rules) : HasFactor(w, rewrite_rules[r][1]) }

\* One replacement of an lhs by its rhs: the first applicable rule, at its
\* leftmost occurrence.
RewriteOnce(w) ==
    LET r   == CHOOSE x \in Applicable(w) : \A y \in Applicable(w) : x <= y
        lhs == rewrite_rules[r][1]
        rhs == rewrite_rules[r][2]
        p   == CHOOSE x \in 1..Len(w) :
                   /\ FactorAt(w, lhs, x)
                   /\ \A y \in 1..(x - 1) : ~FactorAt(w, lhs, y)
    IN SubSeq(w, 1, p - 1) \o rhs \o SubSeq(w, p + Len(lhs), Len(w))

\* Replacing lhs factors by their rhs until none applies.
RECURSIVE Rewrite(_)
Rewrite(w) == IF Applicable(w) = {} THEN w ELSE Rewrite(RewriteOnce(w))

\* C14 (P7, rewrite sufficiency): every word over the generator indices of
\* length at most MaxWord that is not the shortlex word of its element
\* contains the lhs of an emitted rule as a factor, and rewriting any such
\* word until no rule applies ends at the shortlex word of its element.
C14_RewriteSufficiency ==
    Built =>
        LET words == WordsUpTo(MaxWord)
            ev    == [w \in words |-> Eval(w)]
            least == [w \in words |->
                         \A x \in words :
                             ev[x] = ev[w] => ~ShortlexLess(x, w)]
        IN \A w \in words :
               /\ ~least[w] => Applicable(w) # {}
               /\ least[Rewrite(w)]
               /\ ev[Rewrite(w)] = ev[w]

\* C15: the lhs words of rewrite_rules are strictly increasing in shortlex
\* order (the order the collisions are met: u in shortlex order, then the
\* generator index), so that no lhs occurs twice; and a step of an engine
\* changes rewrite_rules only by appending one rule, leaving the rules it
\* has as they are.
C15_RulesAppendOnly ==
    /\ [](\A r, s \in 1..Len(rewrite_rules) :
              r < s => ShortlexLess(rewrite_rules[r][1], rewrite_rules[s][1]))
    /\ [][pc # "built" =>
              \/ rewrite_rules' = rewrite_rules
              \/ /\ Len(rewrite_rules') = Len(rewrite_rules) + 1
                 /\ SubSeq(rewrite_rules', 1, Len(rewrite_rules)) = rewrite_rules
                 /\ pc \in {"phase1", "right"}]_vars

\* A result with rules appended in phase 1 and in phase 2.
C15_Witness ==
    /\ Built
    /\ Len(rewrite_rules) >= 3
    /\ \E r \in 1..Len(rewrite_rules) : Len(rewrite_rules[r][1]) = 2
    /\ \E r \in 1..Len(rewrite_rules) : Len(rewrite_rules[r][1]) >= 3

\* C16: TransformationSemigroup::new has returned Err(MismatchingDegree)
\* exactly when a generator's degree differs from the first generator's;
\* otherwise, the empty list included (degree 0), it has returned a
\* semigroup that keeps the generators as supplied, and all the elements the
\* engine multiplies have one degree.
C16_MismatchingDegree ==
    pc # "semigroup_new" =>
        /\ pc = "err" <=> \E x \in 1..Len(gens) : gens[x].degree # gens[1].degree
        /\ pc # "err" =>
               /\ SemigroupGenerators = gens
               /\ semigroup.degree = IF gens = << >> THEN 0 ELSE gens[1].degree
               /\ \A x \in 1..Len(elements) :
                      elements[x].degree = semigroup.degree

\* A list whose second generator has another degree than the first was
\* turned down.
C16_Witness ==
    /\ pc = "err"
    /\ Len(gens) = 2
    /\ gens[1].degree # gens[2].degree

\* C17: multiply composes left to right.  For f and g of one degree n it
\* returns Ok(fg) with fg of degree n and fg.apply(x) = g.apply(f.apply(x))
\* for every x < n; for different degrees it returns Err(MismatchingDegree);
\* it never panics.
C17_MultiplyComposes ==
    call.op = "multiply" =>
        LET f == call.f
            g == call.g
            r == call.result
        IN /\ r.tag # "Panic"
           /\ f.degree = g.degree =>
                  /\ IsOk(r)
                  /\ r.val.degree = f.degree
                  /\ \A x \in 0..(f.degree - 1) :
                         TransformationApply(r.val, x) =
                             TransformationApply(g, TransformationApply(f, x).val)
           /\ f.degree # g.degree => r.tag = "Err" /\ r.err = "MismatchingDegree"

\* C18: id(n) is the identity on n points: degree n, one image per point,
\* apply(x) = x for every x < n, is_id() true, and neutral on both sides for
\* multiply with every transformation of degree n, without error or panic.
C18_IdIsIdentity ==
    /\ call.op = "id" =>
           LET e == call.result
               n == call.degree
           IN /\ e.degree = n
              /\ Len(e.vals) = n
              /\ TransformationIsId(e)
              /\ \A x \in 0..(n - 1) :
                     LET y == TransformationApply(e, x)
                     IN IsOk(y) /\ y.val = x
    /\ (call.op = "multiply" /\ call.f \in Ids /\ call.f.degree = call.g.degree) =>
           IsOk(call.result) /\ call.result.val = call.g
    /\ (call.op = "multiply" /\ call.g \in Ids /\ call.f.degree = call.g.degree) =>
           IsOk(call.result) /\ call.result.val = call.f

CellsOf(t) == (0..(t.n_rows - 1)) \X (0..(t.n_cols - 1))

\* C20: Vec2::new(r, c) has r rows, c columns and the default value in
\* every cell; a write of v to a cell (i, j) of a table makes (i, j) read v
\* and leaves the number of rows and columns and every other cell as they
\* were.
C20_NewAndWrite ==
    /\ call.op = "vec2_new" =>
           /\ table.n_rows = call.n_rows
           /\ table.n_cols = call.n_cols
           /\ \A c \in CellsOf(table) : Vec2Index(table, c[1], c[2]) = None
    /\ call.op = "vec2_write" =>
           /\ table.n_rows = call.before.n_rows
           /\ table.n_cols = call.before.n_cols
           /\ Vec2Index(table, call.row, call.col) = call.val
           /\ \A c \in CellsOf(table) \ {<<call.row, call.col>>} :
                  Vec2Index(table, c[1], c[2]) =
                      Vec2Index(call.before, c[1], c[2])

\* A second write to a table of two rows and two columns, to another cell
\* than the first, which keeps what the first wrote.
C20_Witness ==
    /\ call.op = "vec2_write"
    /\ call.writes = 2
    /\ table.n_rows = 2
    /\ table.n_cols = 2
    /\ call.val # None
    /\ \E c \in CellsOf(table) \ {<<call.row, call.col>>} :
           Vec2Index(table, c[1], c[2]) # None

\* C21: after any sequence of add_row, add_col and cell writes, an add_row
\* or add_col has raised its own dimension by one and left the other; every
\* cell holds the value last written to it at its coordinates, the default
\* if nothing was written to it, the cells of new rows and columns included;
\* and get_row(r) is the cells (r, 0), .., (r, n_cols - 1) in this order.
C21_GrowKeepsCells ==
    pc = "table" =>
        /\ call.op = "vec2_add_row" =>
               /\ table.n_rows = call.before.n_rows + 1
               /\ table.n_cols = call.before.n_cols
        /\ call.op = "vec2_add_col" =>
               /\ table.n_cols = call.before.n_cols + 1
               /\ table.n_rows = call.before.n_rows
        /\ Len(table.vec) = table.n_rows * table.n_cols
        /\ DOMAIN call.shadow = CellsOf(table)
        /\ \A c \in CellsOf(table) :
               Vec2Index(table, c[1], c[2]) = call.shadow[c]
        /\ \A r \in 0..(table.n_rows - 1) :
               Vec2GetRow(table, r) =
                   [x \in 1..table.n_cols |-> Vec2Index(table, r, x - 1)]

\* A column was added to a table of two rows after a write to its second
\* row, and the value written is still there.
C21_Witness ==
    /\ pc = "table"
    /\ call.op = "vec2_add_col"
    /\ call.before.n_rows >= 2
    /\ call.before.n_cols >= 1
    /\ \E c \in CellsOf(call.before) :
           c[1] >= 1 /\ Vec2Index(table, c[1], c[2]) # None

\* C22: an indexed read or write at (r, c) succeeds only when r < n_rows and
\* c < n_cols; with c >= n_cols or r >= n_rows it fails, and the table is
\* left as it was.
C22_BoundsChecked ==
    call.op \in {"vec2_read", "vec2_write_outside"} =>
        /\ IsOk(call.result) =>
               /\ call.row < call.before.n_rows
               /\ call.col < call.before.n_cols
        /\ table = call.before

C24_Decomposition ==
    Constructed =>
        \A x \in 0..(N - 1) :
            At(length, x) >= 1 =>
                /\ IsSome(At(prefix, x))
                /\ IsSome(At(suffix, x))
                /\ At(elements, x) =
                       Multiply(At(elements, Unwrap(At(prefix, x))),
                                Generator(At(last, x)))
                /\ At(elements, x) =
                       Multiply(Generator(At(first, x)),
                                At(elements, Unwrap(At(suffix, x))))

\* An element of length 3, inserted by the right pass, whose prefix and
\* suffix are elements of length 2.
C24_Witness ==
    /\ Constructed
    /\ \E x \in 0..(N - 1) :
           /\ At(length, x) = 3
           /\ IsSome(At(prefix, x))
           /\ IsSome(At(suffix, x))
           /\ At(length, Unwrap(At(prefix, x))) = 2
           /\ At(length, Unwrap(At(suffix, x))) = 2
           /\ At(first, x) # At(last, x)

\* The generator columns 1..K of the row x of both Cayley graphs are
\* determined.
RightRowDone(x) ==
    \A g \in 1..K : IsSome(Vec2Index(right_cayley_graph, x, g))

LeftRowDone(x) ==
    \A g \in 1..K : IsSome(Vec2Index(left_cayley_graph, x, g))

\* C25: the passes take the lengths in turn.  While the right pass works on
\* an element u, u has the current length n and both rows of every element
\* shorter than n are determined; the left pass for the length n runs only
\* when the right row of every element of length n is determined; and when
\* the left pass of the length n is over, both rows of every element of
\* length <= n are determined, before the right pass of n + 1 starts.
C25_TwoPasses ==
    /\ pc = "right" =>
           /\ current_word_length >= 2
           /\ At(length, u) = current_word_length
           /\ \A x \in 0..(N - 1) :
                  At(length, x) < current_word_length =>
                      RightRowDone(x) /\ LeftRowDone(x)
    /\ pc = "left" =>
           /\ At(length, u) = current_word_length
           /\ \A x \in 0..(N - 1) :
                  At(length, x) <= current_word_length => RightRowDone(x)
           /\ \A x \in 0..(N - 1) :
                  At(length, x) < current_word_length => LeftRowDone(x)
    /\ pc = "advance" =>
           \A x \in 0..(N - 1) :
               At(length, x) <= current_word_length =>
                   RightRowDone(x) /\ LeftRowDone(x)

\* The left pass of the length 3 works on the second element of this
\* length.
C25_Witness ==
    /\ pc = "left"
    /\ current_word_length = 3
    /\ u > v
    /\ At(length, v) = 3
    /\ ~LeftRowDone(u)

\* The fields of the engine other than the two Cayley graphs.
OtherFields ==
    <<current_word_length, generators, elements, element_map, rewrite_rules,
      reduced, prefix, last, suffix, first, length>>

\* C26: elements and rewrite rules are appended only by phase 1 and by the
\* right pass at a reduced product.  A shortcut step of the right pass
\* changes nothing but the cell R[u,g], and writes the index of
\* elements[u] * g_g; a step of the left pass changes nothing but the cell
\* L[u,g], and writes R[L[prefix[u],g], last[u]], the index of
\* g_g * elements[u].
C26_ShortcutFrame ==
    /\ [][(pc \notin {"new", "built"} /\
              (elements' # elements \/ rewrite_rules' # rewrite_rules)) =>
              (pc = "phase1" \/ (pc = "right" /\ RightReduced))]_vars
    /\ [][(pc = "right" /\ ~RightReduced /\ pc' # "panic") =>
              /\ UNCHANGED <<OtherFields, left_cayley_graph>>
              /\ IsSome(Vec2Index(right_cayley_graph', u, i))
              /\ right_cayley_graph' =
                     Vec2IndexMut(right_cayley_graph, u, i,
                                  Vec2Index(right_cayley_graph', u, i))
              /\ At(elements, Unwrap(Vec2Index(right_cayley_graph', u, i))) =
                     Multiply(At(elements, u), Generator(i))]_vars
    /\ [][(pc = "left" /\ pc' # "panic") =>
              /\ UNCHANGED <<OtherFields, right_cayley_graph>>
              /\ Vec2Index(left_cayley_graph', u, i) = LeftRes
              /\ IsSome(LeftRes)
              /\ left_cayley_graph' =
                     Vec2IndexMut(left_cayley_graph, u, i, LeftRes)
              /\ At(elements, Unwrap(LeftRes)) =
                     Multiply(Generator(i), At(elements, u))]_vars

\* A shortcut step has written a cell of an element of length 3 and the
\* left pass of the length 3 has begun.
C26_Witness ==
    /\ pc = "left"
    /\ current_word_length = 3
    /\ \E x \in 0..(N - 1), g \in 1..K :
           /\ At(length, x) = 3
           /\ IsSome(Vec2Index(right_cayley_graph, x, g))
           /\ ~Vec2Index(reduced, Unwrap(At(suffix, x)), g)

\* FroidurePin::new has just returned and run() has not taken a step.
AfterNew ==
    \/ pc = "phase1" /\ i = 1 /\ j = 1
    \/ pc = "phase1_end" /\ K = 0

\* The cells of the identity row and column new() fills.
IdentityCell(x, g) == (x = 0 /\ g \in 1..K) \/ (g = 0 /\ x \in 1..K)

\* C27: after construction and before run(), elements is the identity
\* followed by the generators; the identity has first = last = 0, prefix =
\* suffix = None and length 0; the generator x has first = last = x, prefix
\* = suffix = Some(0) and length 1; the index map sends each of these
\* elements to its index; R[x,0] = L[0,x] = R[0,x] = L[x,0] = Some(x) for x
\* in 1..k and every other Cayley cell is undetermined; every reduced cell
\* is false, there is no rewrite rule and current_word_length is 1.
C27_AfterConstruction ==
    AfterNew =>
        /\ elements = <<Unwrap(SemigroupId)>> \o generators
        /\ At(first, 0) = 0 /\ At(last, 0) = 0
        /\ At(prefix, 0) = None /\ At(suffix, 0) = None
        /\ At(length, 0) = 0
        /\ Len(first) = N /\ Len(last) = N /\ Len(prefix) = N
        /\ Len(suffix) = N /\ Len(length) = N
        /\ \A x \in 1..K :
               /\ At(first, x) = x /\ At(last, x) = x
               /\ At(prefix, x) = Some(0) /\ At(suffix, x) = Some(0)
               /\ At(length, x) = 1
        /\ \A x \in 0..K :
               /\ At(elements, x) \in DOMAIN element_map
               /\ element_map[At(elements, x)] = x
        /\ \A x \in 0..K, g \in 0..K :
               /\ Vec2Index(right_cayley_graph, x, g) =
                      IF IdentityCell(x, g) THEN Some(x + g) ELSE None
               /\ Vec2Index(left_cayley_graph, x, g) =
                      IF IdentityCell(x, g) THEN Some(x + g) ELSE None
               /\ Vec2Index(reduced, x, g) = FALSE
        /\ rewrite_rules = << >>
        /\ current_word_length = 1

\* R[x,g] is an element whose word is the word of x followed by g.
ExtendsTo(x, g) ==
    LET cell == Vec2Index(right_cayley_graph, x, g)
    IN /\ IsSome(cell)
       /\ At(prefix, Unwrap(cell)) = Some(x)
       /\ At(last, Unwrap(cell)) = g

\* A reduced cell that is true stays true.
ReducedNeverReset ==
    [][pc # "built" =>
           \A x \in 0..(N - 1), g \in 1..K :
               Vec2Index(reduced, x, g) => Vec2Index(reduced', x, g)]_vars

\* C28 as stated: for every element x and generator g in 1..k, reduced[x,g]
\* is true if and only if R[x,g] = Some(n) with prefix[n] = x and last[n] =
\* g, and then length[n] = length[x] + 1; a reduced cell once true is never
\* reset.
C28_ReducedMeaning ==
    /\ [](Constructed =>
              \A x \in 0..(N - 1), g \in 1..K :
                  /\ Vec2Index(reduced, x, g) <=> ExtendsTo(x, g)
                  /\ Vec2Index(reduced, x, g) =>
                         At(length, Unwrap(Vec2Index(right_cayley_graph, x, g)))
                             = At(length, x) + 1)
    /\ ReducedNeverReset

\* C28 amended: the same for every element x but the identity, that is for
\* the elements n appended by run() when a product was formed; the cells
\* reduced[0,g] stay false although R[0,g] = g has prefix 0 and last g.
C28_ReducedMeaningOfProducts ==
    /\ [](Constructed =>
              /\ \A x \in 1..(N - 1), g \in 1..K :
                     /\ Vec2Index(reduced, x, g) <=> ExtendsTo(x, g)
                     /\ Vec2Index(reduced, x, g) =>
                            At(length, Unwrap(Vec2Index(right_cayley_graph, x, g)))
                                = At(length, x) + 1
              /\ \A g \in 1..K : ~Vec2Index(reduced, 0, g))
    /\ ReducedNeverReset

\* The right pass has set a reduced cell of an element of length 2.
C28_Witness ==
    /\ Constructed
    /\ \E x \in 1..(N - 1), g \in 1..K :
           /\ At(length, x) = 2
           /\ Vec2Index(reduced, x, g)
           /\ ExtendsTo(x, g)

\* A step of run(): the engine is constructed and build() has not returned.
Running == Constructed /\ ~Built

\* The sequence after a step keeps the entries it had.
Extends(old, new) ==
    /\ Len(new) >= Len(old)
    /\ SubSeq(new, 1, Len(old)) = old

\* A step writes a Cayley cell only where it was undetermined; the cells
\* that were determined keep their value, and no row or column is removed.
WriteOnce(old, new) ==
    /\ new.n_rows >= old.n_rows
    /\ new.n_cols = old.n_cols
    /\ \A x \in 0..(old.n_rows - 1), g \in 0..(old.n_cols - 1) :
           IsSome(Vec2Index(old, x, g)) =>
               Vec2Index(new, x, g) = Vec2Index(old, x, g)

\* C29: during run() the arrays elements, first, last, prefix, suffix and
\* length only grow by appending (no entry is removed, moved or changed),
\* an element keeps its index in element_map, and a Cayley cell that is
\* determined keeps its value; and the cell a step of phase 1, of the right
\* pass or of the left pass is about to assign is undetermined.
C29_AppendOnlyWriteOnce ==
    /\ [][Running =>
          /\ Extends(elements, elements')
          /\ Extends(first, first')
          /\ Extends(last, last')
          /\ Extends(prefix, prefix')
          /\ Extends(suffix, suffix')
          /\ Extends(length, length')
          /\ \A e \in DOMAIN element_map :
                 /\ e \in DOMAIN element_map'
                 /\ element_map'[e] = element_map[e]
          /\ WriteOnce(right_cayley_graph, right_cayley_graph')
          /\ WriteOnce(left_cayley_graph, left_cayley_graph')]_vars
    /\ [](/\ pc = "phase1" =>
               /\ Vec2Index(right_cayley_graph, i, j) = None
               /\ Vec2Index(left_cayley_graph, j, i) = None
          /\ pc = "right" => Vec2Index(right_cayley_graph, u, i) = None
          /\ pc = "left" => Vec2Index(left_cayley_graph, u, i) = None)

\* A result whose run appended elements and filled cells in both graphs
\* in phase 1 and in phase 2.
C29_Witness ==
    /\ Built
    /\ N >= 5
    /\ Len(rewrite_rules) >= 2
    /\ \E x \in 0..(N - 1) : At(length, x) >= 2

\* The n calls of the closure of pos_to_word from cur_pos unwrap a Some.
RECURSIVE UnwrapsSome(_, _)
UnwrapsSome(cur_pos, n) ==
    IF n = 0 THEN TRUE
    ELSE /\ cur_pos \in 0..(N - 1)
         /\ IsSome(At(suffix, cur_pos))
         /\ UnwrapsSome(Unwrap(At(suffix, cur_pos)), n - 1)

\* x is the index of an element one letter shorter than element y, before y.
ShorterBefore(x, y) ==
    /\ IsSome(x)
    /\ Unwrap(x) < y
    /\ At(length, Unwrap(x)) = At(length, y) - 1

\* C30: in every state after construction, prefix and suffix of an element
\* of length >= 1 are determined, are smaller indices and are one letter
\* shorter; index 0 alone has prefix = suffix = None; an element n of
\* phase 2 (length >= 3), made from u = prefix[n] and g = last[n], has
\* suffix[n] = R[suffix[u], g]; and pos_to_word(y) unwraps only Some and is
\* a word of length[y] generator indices in 1..k.
C30_PrefixSuffixDag ==
    Constructed =>
        /\ At(prefix, 0) = None /\ At(suffix, 0) = None /\ At(length, 0) = 0
        /\ \A y \in 1..(N - 1) :
               /\ At(length, y) >= 1
               /\ ShorterBefore(At(prefix, y), y)
               /\ ShorterBefore(At(suffix, y), y)
               /\ At(length, y) >= 3 =>
                      LET x == Unwrap(At(prefix, y))
                          g == At(last, y)
                      IN At(suffix, y) =
                             get_right_cayley_element(Unwrap(At(suffix, x)), g)
        /\ \A y \in 0..(N - 1) :
               /\ UnwrapsSome(y, At(length, y))
               /\ Len(pos_to_word(y)) = At(length, y)
               /\ \A p \in 1..Len(pos_to_word(y)) : pos_to_word(y)[p] \in 1..K

\* A result with an element of phase 2 whose suffix is an element of
\* phase 1 and whose word has three letters.
C30_Witness ==
    /\ Built
    /\ \E y \in 1..(N - 1) :
           /\ At(length, y) = 3
           /\ Len(pos_to_word(y)) = 3
           /\ At(length, Unwrap(At(suffix, y))) = 2
           /\ Unwrap(At(suffix, y)) # Unwrap(At(prefix, y))

\* The table has exactly rows rows and cols columns, cell after cell.
Shaped(t, rows, cols) ==
    /\ t.n_rows = rows
    /\ t.n_cols = cols
    /\ Len(t.vec) = rows * cols

\* C31: after construction and after every step of run(), elements, first,
\* last, prefix, suffix, length and element_map have the same size N, and
\* right_cayley_graph, left_cayley_graph and reduced have exactly N rows
\* and k + 1 columns, so that (s, g) is a cell of row s for s < N, g in 0..k.
C31_SizesInLockstep ==
    Constructed =>
        /\ Len(first) = N
        /\ Len(last) = N
        /\ Len(prefix) = N
        /\ Len(suffix) = N
        /\ Len(length) = N
        /\ Cardinality(DOMAIN element_map) = N
        /\ Shaped(right_cayley_graph, N, K + 1)
        /\ Shaped(left_cayley_graph, N, K + 1)
        /\ Shaped(reduced, N, K + 1)

\* The element a word of the simple enumerator stands for: the identity
\* for the empty word.
WordValue(word) ==
    IF word = << >> THEN Identity ELSE CollapseWord(word)

\* Every relation maps its word to a word of the list that is less in
\* military order and collapses to the same element.
RelationsSound ==
    \A lhs \in DOMAIN call.relations :
        LET rhs == call.relations[lhs]
        IN /\ rhs \in Range(call.words)
           /\ ShortlexLess(rhs, lhs)
           /\ WordValue(rhs) = WordValue(lhs)

\* C33: the word list froidure_pin_simple returns starts with the empty
\* word and is strictly increasing in military order (shorter first, then
\* lexicographic by symbol), whatever the order its symbols were handed out
\* in; and every relation maps a word to an earlier word of the list that
\* collapses to the same element.
C33_SimpleMilitaryOrder ==
    (call.op = "simple" /\ call.semigroup = semigroup) =>
        /\ call.words[1] = << >>
        /\ \A r, s \in 1..Len(call.words) :
               r < s => ShortlexLess(call.words[r], call.words[s])
        /\ RelationsSound

\* Phase 1 has handled the pair (a, b): it is over, or its cursor (i, j) is
\* beyond the pair in row-major order.
Handled(a, b) ==
    \/ pc # "phase1"
    \/ a < i
    \/ a = i /\ b < j

\* C32: phase 1 handles the pairs (a, b) of generators, a, b in 1..k, in
\* row-major order: the pairs before its cursor have R[a,b] = L[b,a] = the
\* index of elements[a] * elements[b], the others are undetermined; an
\* element made in phase 1 has first = prefix = a, last = suffix = b and
\* length 2; and when no product was new, run() returns from the end of
\* phase 1 with k + 1 elements and current_word_length 1, and otherwise
\* enters phase 2.
C32_PhaseOne ==
    /\ [](Constructed =>
            /\ \A a, b \in 1..K :
                   IF Handled(a, b)
                   THEN /\ IsSome(Vec2Index(right_cayley_graph, a, b))
                        /\ Vec2Index(left_cayley_graph, b, a) =
                               Vec2Index(right_cayley_graph, a, b)
                        /\ At(elements,
                              Unwrap(Vec2Index(right_cayley_graph, a, b))) =
                               Multiply(At(elements, a), At(elements, b))
                   ELSE /\ Vec2Index(right_cayley_graph, a, b) = None
                        /\ Vec2Index(left_cayley_graph, b, a) = None
            /\ \A n \in (K + 1)..(N - 1) :
                   At(length, n) = 2 =>
                       /\ At(prefix, n) = Some(At(first, n))
                       /\ At(suffix, n) = Some(At(last, n))
                       /\ At(first, n) \in 1..K /\ At(last, n) \in 1..K
                       /\ Vec2Index(right_cayley_graph,
                                    At(first, n), At(last, n)) = Some(n)
            /\ pc \in {"phase1", "phase1_end"} =>
                   /\ current_word_length = 1
                   /\ \A n \in (K + 1)..(N - 1) : At(length, n) = 2)
    /\ [][pc = "phase1_end" =>
              IF N = K + 1
              THEN /\ pc' = "done"
                   /\ Len(elements') = K + 1
                   /\ current_word_length' = 1
              ELSE pc' = "right_while"]_vars

\* A run that returned right after phase 1, all its products being known,
\* with two generators.
C32_Witness ==
    /\ pc = "done"
    /\ current_word_length = 1
    /\ K = 2
    /\ N = 3
    /\ Len(rewrite_rules) = 4

====
